---------------------------- MODULE Spec2Model ----------------------------
(***************************************************************************)
(* A model of the orchestrator scripts under .a5c/orchestrator_scripts:    *)
(*   a5c_append_event.py   the event journal and its nextEventId counter   *)
(*   extract_first_json.py the search for the first JSON value in a text   *)
(* Texts are sequences of one-character strings, so that str(), int() and  *)
(* json.loads() are computed character by character as the library does.   *)
(***************************************************************************)
EXTENDS Integers, Sequences, FiniteSets, TLC

(***************************************************************************)
(* Bounds of the model.                                                    *)
(***************************************************************************)
\* invocations of append-event started in one behaviour
MaxInvocations == 4
\* tokens of a generated input text of extract_first_json
MaxTokens == 5

(***************************************************************************)
(* Characters.                                                             *)
(***************************************************************************)
DigitChars == <<"0", "1", "2", "3", "4", "5", "6", "7", "8", "9">>

IsDigit(c) == \E i \in 1..10 : DigitChars[i] = c

DigitVal(c) == (CHOOSE i \in 1..10 : DigitChars[i] = c) - 1

\* the whitespace json.decoder.WHITESPACE skips: [ \t\n\r]*
JsonWs == {" ", "\t", "\n", "\r"}

\* the characters the model's texts hold that a strict json string rejects
\* (code points below 0x20)
ControlChars == {"\t", "\n", "\r", "\f"}

\* s[i], or "" (no character) past the end: Python's s[i:i+1]
At(s, i) == IF i >= 1 /\ i <= Len(s) THEN s[i] ELSE ""

\* whether s[i:i+len(lit)] == lit
MatchAt(s, i, lit) ==
    /\ i + Len(lit) - 1 <= Len(s)
    /\ \A k \in 1..Len(lit) : s[i + k - 1] = lit[k]

(***************************************************************************)
(* JSON values, as json.loads builds them: int, float (kept as its         *)
(* lexeme), str, None, bool, list and dict (a function of its keys: a      *)
(* repeated key keeps the last value).                                     *)
(***************************************************************************)
JInt(n) == [t |-> "int", n |-> n]
JFloat(lex) == [t |-> "float", lex |-> lex]
JStr(s) == [t |-> "str", s |-> s]
JNull == [t |-> "null"]
JBool(b) == [t |-> "bool", b |-> b]
JArr(items) == [t |-> "arr", items |-> items]
JObj(m) == [t |-> "obj", m |-> m]

EmptyDict == <<>>

\* d[k] = v on a dict
DictSet(m, k, v) == [x \in (DOMAIN m) \cup {k} |-> IF x = k THEN v ELSE m[x]]

\* d.get(k, default)
DictGet(m, k, default) == IF k \in DOMAIN m THEN m[k] ELSE default

(***************************************************************************)
(* str(x) and int(s) of Python.                                            *)
(***************************************************************************)
RECURSIVE NatStr(_)
NatStr(n) ==
    IF n < 10 THEN <<DigitChars[n + 1]>>
    ELSE NatStr(n \div 10) \o <<DigitChars[(n % 10) + 1]>>

IntStr(n) == IF n < 0 THEN <<"-">> \o NatStr(-n) ELSE NatStr(n)

\* str(v) of a value json.loads returned, for the scalars
PyStr(v) ==
    CASE v.t = "int" -> IntStr(v.n)
      [] v.t = "str" -> v.s
      [] v.t = "float" -> v.lex
      [] v.t = "null" -> <<"N", "o", "n", "e">>
      [] v.t = "bool" -> IF v.b THEN <<"T", "r", "u", "e">>
                         ELSE <<"F", "a", "l", "s", "e">>

RECURSIVE LStrip(_)
LStrip(s) ==
    IF s # <<>> /\ Head(s) \in JsonWs \cup {"\f"} THEN LStrip(Tail(s)) ELSE s

RECURSIVE RStrip(_)
RStrip(s) ==
    IF s # <<>> /\ s[Len(s)] \in JsonWs \cup {"\f"}
    THEN RStrip(SubSeq(s, 1, Len(s) - 1)) ELSE s

\* str.strip()
Strip(s) == RStrip(LStrip(s))

\* the value of a run of digits and single underscores between digits
RECURSIVE DigitsVal(_, _)
DigitsVal(s, acc) ==
    IF s = <<>> THEN acc
    ELSE IF Head(s) = "_" THEN DigitsVal(Tail(s), acc)
    ELSE DigitsVal(Tail(s), 10 * acc + DigitVal(Head(s)))

\* digit (_? digit)*
IsIntBody(s) ==
    /\ s # <<>>
    /\ \A i \in 1..Len(s) : IsDigit(s[i]) \/ s[i] = "_"
    /\ IsDigit(s[1]) /\ IsDigit(s[Len(s)])
    /\ \A i \in 1..(Len(s) - 1) : ~(s[i] = "_" /\ s[i + 1] = "_")

\* int(s) of a str: [ok |-> FALSE] is the ValueError
PyInt(s) ==
    LET b == Strip(s)
        signed == b # <<>> /\ Head(b) \in {"-", "+"}
        body == IF signed THEN Tail(b) ELSE b
    IN IF IsIntBody(body)
       THEN [ok |-> TRUE,
             val |-> IF signed /\ Head(b) = "-" THEN 0 - DigitsVal(body, 0)
                     ELSE DigitsVal(body, 0)]
       ELSE [ok |-> FALSE, val |-> 0]

(***************************************************************************)
(* json.loads(s): the scanner of json.decoder / json.scanner.  A result is *)
(* [ok, val, end]: end is the index after the value; ok = FALSE is the     *)
(* JSONDecodeError.                                                        *)
(***************************************************************************)
ScanFail == [ok |-> FALSE, val |-> JNull, end |-> 0]

ScanOk(v, e) == [ok |-> TRUE, val |-> v, end |-> e]

\* WHITESPACE.match(s, i).end()
RECURSIVE SkipWs(_, _)
SkipWs(s, i) == IF At(s, i) \in JsonWs THEN SkipWs(s, i + 1) ELSE i

\* the index after the run of digits that starts at i
RECURSIVE DigitsEnd(_, _)
DigitsEnd(s, i) == IF IsDigit(At(s, i)) THEN DigitsEnd(s, i + 1) ELSE i

HexChars == {"a", "b", "c", "d", "e", "f", "A", "B", "C", "D", "E", "F"}

IsHex(c) == IsDigit(c) \/ c \in HexChars

\* BACKSLASH of json.decoder: the character an escape stands for
Unescape(c) ==
    CASE c = "\"" -> "\""
      [] c = "\\" -> "\\"
      [] c = "/" -> "/"
      [] c = "b" -> "\\b"
      [] c = "f" -> "\f"
      [] c = "n" -> "\n"
      [] c = "r" -> "\r"
      [] c = "t" -> "\t"

EscapeChars == {"\"", "\\", "/", "b", "f", "n", "r", "t"}

\* py_scanstring(s, i) in strict mode, i the index after the opening quote;
\* a \uXXXX escape is kept as the mark "\\u" (no character of a text is it)
\* and its four hex digits
RECURSIVE ScanString(_, _, _)
ScanString(s, i, acc) ==
    LET c == At(s, i) IN
    IF c = "" THEN ScanFail
    ELSE IF c = "\"" THEN ScanOk(acc, i + 1)
    ELSE IF c \in ControlChars THEN ScanFail
    ELSE IF c # "\\" THEN ScanString(s, i + 1, Append(acc, c))
    ELSE LET e == At(s, i + 1) IN
         IF e \in EscapeChars THEN ScanString(s, i + 2, Append(acc, Unescape(e)))
         ELSE IF e = "u" /\ \A k \in 2..5 : IsHex(At(s, i + k))
         THEN ScanString(s, i + 6, acc \o <<"\\u">> \o SubSeq(s, i + 2, i + 5))
         ELSE ScanFail

\* NUMBER_RE = (-?(?:0|[1-9]\d*))(\.\d+)?([eE][-+]?\d+)? matched at i
ScanNumber(s, i) ==
    LET j == IF At(s, i) = "-" THEN i + 1 ELSE i
        intEnd == IF At(s, j) = "0" THEN j + 1
                  ELSE IF IsDigit(At(s, j)) THEN DigitsEnd(s, j)
                  ELSE 0
        fracEnd == IF At(s, intEnd) = "." /\ IsDigit(At(s, intEnd + 1))
                   THEN DigitsEnd(s, intEnd + 1) ELSE intEnd
        expDigits == IF At(s, fracEnd + 1) \in {"-", "+"} THEN fracEnd + 2
                     ELSE fracEnd + 1
        expEnd == IF At(s, fracEnd) \in {"e", "E"} /\ IsDigit(At(s, expDigits))
                  THEN DigitsEnd(s, expDigits) ELSE fracEnd
    IN IF intEnd = 0 THEN ScanFail
       ELSE IF expEnd = intEnd
       THEN ScanOk(JInt(PyInt(SubSeq(s, i, intEnd - 1)).val), intEnd)
       ELSE ScanOk(JFloat(SubSeq(s, i, expEnd - 1)), expEnd)

LitNull == <<"n", "u", "l", "l">>
LitTrue == <<"t", "r", "u", "e">>
LitFalse == <<"f", "a", "l", "s", "e">>
LitNaN == <<"N", "a", "N">>
LitInfinity == <<"I", "n", "f", "i", "n", "i", "t", "y">>
LitNegInfinity == <<"-">> \o LitInfinity

RECURSIVE ScanOnce(_, _)
RECURSIVE ArrayLoop(_, _, _)
RECURSIVE ObjectLoop(_, _, _)

\* JSONArray(s, i), i the index after the "["
JSONArray(s, i) ==
    LET j == SkipWs(s, i) IN
    IF At(s, j) = "]" THEN ScanOk(JArr(<<>>), j + 1) ELSE ArrayLoop(s, j, <<>>)

\* the loop of JSONArray: a value at i, then "," or "]"
ArrayLoop(s, i, acc) ==
    LET r == ScanOnce(s, i) IN
    IF ~r.ok THEN ScanFail
    ELSE LET j == SkipWs(s, r.end)
             items == Append(acc, r.val)
         IN IF At(s, j) = "]" THEN ScanOk(JArr(items), j + 1)
            ELSE IF At(s, j) # "," THEN ScanFail
            ELSE ArrayLoop(s, SkipWs(s, j + 1), items)

\* JSONObject(s, i), i the index after the "{"
JSONObject(s, i) ==
    LET j == SkipWs(s, i) IN
    IF At(s, j) = "}" THEN ScanOk(JObj(EmptyDict), j + 1)
    ELSE IF At(s, j) # "\"" THEN ScanFail
    ELSE ObjectLoop(s, j, EmptyDict)

\* the loop of JSONObject: s[i] is the quote that opens a key
ObjectLoop(s, i, m) ==
    LET key == ScanString(s, i + 1, <<>>) IN
    IF ~key.ok THEN ScanFail
    ELSE LET c == SkipWs(s, key.end) IN
    IF At(s, c) # ":" THEN ScanFail
    ELSE LET r == ScanOnce(s, SkipWs(s, c + 1)) IN
    IF ~r.ok THEN ScanFail
    ELSE LET j == SkipWs(s, r.end)
             pairs == DictSet(m, key.val, r.val)
         IN IF At(s, j) = "}" THEN ScanOk(JObj(pairs), j + 1)
            ELSE IF At(s, j) # "," THEN ScanFail
            ELSE LET q == SkipWs(s, j + 1) IN
                 IF At(s, q) # "\"" THEN ScanFail
                 ELSE ObjectLoop(s, q, pairs)

\* _scan_once(string, idx) of json.scanner.py_make_scanner
ScanOnce(s, i) ==
    LET c == At(s, i) IN
    IF c = "" THEN ScanFail
    ELSE IF c = "\"" THEN
         LET r == ScanString(s, i + 1, <<>>) IN
         IF r.ok THEN ScanOk(JStr(r.val), r.end) ELSE ScanFail
    ELSE IF c = "{" THEN JSONObject(s, i + 1)
    ELSE IF c = "[" THEN JSONArray(s, i + 1)
    ELSE IF MatchAt(s, i, LitNull) THEN ScanOk(JNull, i + 4)
    ELSE IF MatchAt(s, i, LitTrue) THEN ScanOk(JBool(TRUE), i + 4)
    ELSE IF MatchAt(s, i, LitFalse) THEN ScanOk(JBool(FALSE), i + 5)
    ELSE IF ScanNumber(s, i).ok THEN ScanNumber(s, i)
    ELSE IF MatchAt(s, i, LitNaN) THEN ScanOk(JFloat(LitNaN), i + 3)
    ELSE IF MatchAt(s, i, LitInfinity) THEN ScanOk(JFloat(LitInfinity), i + 8)
    ELSE IF MatchAt(s, i, LitNegInfinity) THEN ScanOk(JFloat(LitNegInfinity), i + 9)
    ELSE ScanFail

\* json.loads(s): JSONDecoder.decode: one value, whitespace around it, and
\* nothing else ("Extra data" otherwise)
JsonLoads(s) ==
    LET r == ScanOnce(s, SkipWs(s, 1)) IN
    IF r.ok /\ SkipWs(s, r.end) = Len(s) + 1 THEN [ok |-> TRUE, val |-> r.val]
    ELSE [ok |-> FALSE, val |-> JNull]

(***************************************************************************)
(* json.dumps(v, ensure_ascii=False, indent=2): the text of a value.  A    *)
(* float is written by float.__repr__, the shortest text that reads back   *)
(* as the same float: the model writes the lexeme it holds the float by.   *)
(* A dict is written in the order of its keys, here some fixed order.      *)
(***************************************************************************)
\* mutant of EscapeOf: every character is written as it is
EscapeNothing(c) == <<c>>

\* ESCAPE_DCT of json.encoder: what encode_basestring writes for a character
EscapeOf(c) ==
    CASE c = "\"" -> <<"\\", "\"">>
      [] c = "\\" -> <<"\\", "\\">>
      [] c = "\\b" -> <<"\\", "b">>
      [] c = "\f" -> <<"\\", "f">>
      [] c = "\n" -> <<"\\", "n">>
      [] c = "\r" -> <<"\\", "r">>
      [] c = "\t" -> <<"\\", "t">>
      [] c = "\\u" -> <<"\\", "u">>
      [] OTHER -> <<c>>

RECURSIVE EscapeAll(_)
EscapeAll(s) == IF s = <<>> THEN <<>> ELSE EscapeOf(Head(s)) \o EscapeAll(Tail(s))

\* encode_basestring(s)
EncodeString(s) == <<"\"">> \o EscapeAll(s) \o <<"\"">>

RECURSIVE Spaces(_)
Spaces(n) == IF n = 0 THEN <<>> ELSE <<" ">> \o Spaces(n - 1)

\* newline_indent of _make_iterencode at a nesting level, with indent=2
NewlineIndent(level) == <<"\n">> \o Spaces(2 * level)

\* the keys of a dict in the order they are written
RECURSIVE KeysInOrder(_)
KeysInOrder(ks) ==
    IF ks = {} THEN <<>>
    ELSE LET k == CHOOSE x \in ks : TRUE IN <<k>> \o KeysInOrder(ks \ {k})

RECURSIVE Encode(_, _)
RECURSIVE EncodeItems(_, _)
RECURSIVE EncodeMembers(_, _, _)

\* _iterencode_list: the items, separated by "," and a new line
EncodeItems(items, level) ==
    IF Len(items) = 1 THEN Encode(items[1], level)
    ELSE Encode(items[1], level) \o <<",">> \o NewlineIndent(level)
         \o EncodeItems(Tail(items), level)

\* _iterencode_dict: "key": value, separated by "," and a new line
EncodeMembers(m, keys, level) ==
    LET member == EncodeString(keys[1]) \o <<":", " ">> \o Encode(m[keys[1]], level) IN
    IF Len(keys) = 1 THEN member
    ELSE member \o <<",">> \o NewlineIndent(level) \o EncodeMembers(m, Tail(keys), level)

\* _iterencode(o, _current_indent_level)
Encode(v, level) ==
    CASE v.t = "int" -> IntStr(v.n)
      [] v.t = "float" -> v.lex
      [] v.t = "str" -> EncodeString(v.s)
      [] v.t = "null" -> <<"n", "u", "l", "l">>
      [] v.t = "bool" -> IF v.b THEN <<"t", "r", "u", "e">> ELSE <<"f", "a", "l", "s", "e">>
      [] v.t = "arr" ->
           IF v.items = <<>> THEN <<"[", "]">>
           ELSE <<"[">> \o NewlineIndent(level + 1) \o EncodeItems(v.items, level + 1)
                \o NewlineIndent(level) \o <<"]">>
      [] v.t = "obj" ->
           IF DOMAIN v.m = {} THEN <<"{", "}">>
           ELSE <<"{">> \o NewlineIndent(level + 1)
                \o EncodeMembers(v.m, KeysInOrder(DOMAIN v.m), level + 1)
                \o NewlineIndent(level) \o <<"}">>

JsonDumps(v) == Encode(v, 0)

(***************************************************************************)
(* a5c_append_event.py.  One invocation is three steps on the run          *)
(* directory: ReadState (lines 25-40: read state.json, then local          *)
(* computation), AppendLine (lines 42-44) and RewriteState (lines 46-49).  *)
(* The files are held by what they denote: state.json is missing, not      *)
(* JSON, or the JSON value in it; journal.jsonl is the sequence of its     *)
(* entries.                                                                *)
(***************************************************************************)
VARIABLES
    stateFile,    \* state.json
    journal,      \* journal.jsonl, one entry per line, in file order
    pc,           \* where each process is in its invocation
    local,        \* the local variables of each process's invocation
    calls,        \* history: the invocations (process, arguments), in start order
    overlap,      \* history: an invocation started while another was running
    unrewritten,  \* history: the last append's state rewrite has not happened
    before,       \* history: the run directory when the latest invocation started
    text,         \* extract_first_json: the decoded input text
    result,       \* extract_first_json: what extract_first_json(text) did
    outFile,      \* extract_first_json: the file at out_path
    previous,     \* history: the value whose written text is now the input
    render        \* a5c_render_prompt: the arguments, the files and the outcome

vars == <<stateFile, journal, pc, local, calls, overlap, unrewritten, before, text, result,
          outFile, previous, render>>

journalVars == <<stateFile, journal, pc, local, calls, overlap, unrewritten, before>>

extractVars == <<text, result, outFile, previous>>

renderVars == <<render>>

Proc == {1, 2}

NextEventIdKey == <<"n", "e", "x", "t", "E", "v", "e", "n", "t", "I", "d">>
StatusKey == <<"s", "t", "a", "t", "u", "s">>
RawKey == <<"r", "a", "w">>

MissingFile == [k |-> "missing"]
TextFile(s) == [k |-> "text", s |-> s]
NotJsonFile == [k |-> "garbage"]
JsonFile(v) == [k |-> "json", v |-> v]

\* the reading of the clock by _now_iso(), lines 7-8
Clock == {<<"T", "1", "Z">>}

\* mutant of EventIdOf: the default of state.get is 0
EventIdOfDefaultZero(state) == PyStr(DictGet(state, NextEventIdKey, JInt(0)))

\* line 26: event_id = str(state.get("nextEventId", 1))
EventIdOf(state) == PyStr(DictGet(state, NextEventIdKey, JInt(1)))

\* line 28: args.timestamp.strip() or _now_iso()
TimestampOf(timestamp, now) == IF Strip(timestamp) # <<>> THEN Strip(timestamp) ELSE now

\* mutant of DataObj: a parsed value that is no object is wrapped too
DataObjObjectsOnly(data) ==
    IF JsonLoads(data).ok /\ JsonLoads(data).val.t = "obj" THEN JsonLoads(data).val
    ELSE JObj(RawKey :> JStr(data))

\* lines 29-32: json.loads(args.data), or {"raw": args.data} on JSONDecodeError
DataObj(data) ==
    IF JsonLoads(data).ok THEN JsonLoads(data).val
    ELSE JObj(RawKey :> JStr(data))

\* lines 34-40
Entry(timestamp, type, event_id, event, data_obj) ==
    [timestamp |-> timestamp, type |-> type, id |-> event_id, event |-> event,
     data |-> data_obj]

\* mutant of AppendToFile: the line is written at the start of the file
PrependToFile(lines, entry) == <<entry>> \o lines

\* mutant of AppendToFile: the file is opened with "w"
OverwriteFile(lines, entry) == <<entry>>

\* mutant of AppendToFile: the line never reaches the file
DropLine(lines, entry) == lines

\* lines 43-44: open(journal_path, "a") and the write of one line
AppendToFile(lines, entry) == Append(lines, entry)

\* mutant of Advance: the increment is forgotten
AdvanceStale(state, event_id) ==
    DictSet(state, NextEventIdKey, JInt(PyInt(event_id).val))

\* mutant of Advance: the counter skips a number
AdvanceByTwo(state, event_id) ==
    DictSet(state, NextEventIdKey, JInt(PyInt(event_id).val + 2))

\* mutant of Advance: the state is written afresh, with the counter alone
AdvanceFresh(state, event_id) == NextEventIdKey :> JInt(PyInt(event_id).val + 1)

\* mutant of Advance: the counter counts down
AdvanceDown(state, event_id) ==
    DictSet(state, NextEventIdKey, JInt(PyInt(event_id).val - 1))

\* line 46: state["nextEventId"] = int(event_id) + 1, once int() has succeeded
Advance(state, event_id) ==
    DictSet(state, NextEventIdKey, JInt(PyInt(event_id).val + 1))

\* mutant of ApplyStatus: the status is stored even when it is empty
ApplyStatusAlways(state, set_status) == DictSet(state, StatusKey, JStr(set_status))

\* lines 47-48: if args.set_status: state["status"] = args.set_status
ApplyStatus(state, set_status) ==
    IF set_status # <<>> THEN DictSet(state, StatusKey, JStr(set_status)) ELSE state

Running(p) == pc[p] \in {"read", "appended"}

NoLocal == [args |-> <<>>, state |-> EmptyDict, event_id |-> <<>>, entry |-> <<>>]

\* lines 25-40.  A state.json that is missing or is not JSON raises at line
\* 25; JSON that is not an object has no .get and raises at line 26.
ReadState(p, args, now) ==
    /\ ~Running(p)
    /\ Len(calls) < MaxInvocations
    /\ calls' = Append(calls, [proc |-> p, args |-> args])
    /\ overlap' = (overlap \/ \E q \in Proc \ {p} : Running(q))
    /\ before' = [journal |-> journal, stateFile |-> stateFile]
    /\ IF stateFile.k = "json" /\ stateFile.v.t = "obj"
       THEN /\ pc' = [pc EXCEPT ![p] = "read"]
            /\ local' = [local EXCEPT ![p] =
                  [args |-> args,
                   state |-> stateFile.v.m,
                   event_id |-> EventIdOf(stateFile.v.m),
                   entry |-> Entry(TimestampOf(args.timestamp, now), args.type,
                                   EventIdOf(stateFile.v.m), args.event,
                                   DataObj(args.data))]]
       ELSE /\ pc' = [pc EXCEPT ![p] = "failed"]
            /\ local' = [local EXCEPT ![p] = [NoLocal EXCEPT !.args = args]]
    /\ UNCHANGED <<stateFile, journal, unrewritten, extractVars, renderVars>>

\* lines 42-44
AppendLine(p) ==
    /\ pc[p] = "read"
    /\ journal' = AppendToFile(journal, local[p].entry)
    /\ pc' = [pc EXCEPT ![p] = "appended"]
    /\ unrewritten' = TRUE
    /\ UNCHANGED <<stateFile, local, calls, overlap, before, extractVars, renderVars>>

\* state.json after write_text(s): the file is held by what its text denotes
FileOfText(s) == IF JsonLoads(s).ok THEN JsonFile(JsonLoads(s).val) ELSE NotJsonFile

\* lines 46-49.  int(event_id) raises ValueError at line 46 when event_id is
\* not the text of an integer; write_text then never runs.  write_text is
\* one step: the file is never seen, or left, half written.
RewriteState(p) ==
    /\ pc[p] = "appended"
    /\ IF PyInt(local[p].event_id).ok
       THEN /\ stateFile' = FileOfText(JsonDumps(JObj(ApplyStatus(
                   Advance(local[p].state, local[p].event_id),
                   local[p].args.set_status))) \o <<"\n">>)
            /\ pc' = [pc EXCEPT ![p] = "done"]
            /\ unrewritten' = FALSE
       ELSE /\ pc' = [pc EXCEPT ![p] = "failed"]
            /\ UNCHANGED <<stateFile, unrewritten>>
    /\ UNCHANGED <<journal, local, calls, overlap, before, extractVars, renderVars>>

\* mutant of Interrupt: the line of an interrupted invocation is taken back
InterruptUndo(p) ==
    /\ Running(p)
    /\ pc' = [pc EXCEPT ![p] = "killed"]
    /\ local' = [local EXCEPT ![p] = NoLocal]
    /\ journal' = IF pc[p] = "appended" THEN SubSeq(journal, 1, Len(journal) - 1)
                  ELSE journal
    /\ unrewritten' = FALSE
    /\ UNCHANGED <<stateFile, calls, overlap, before, extractVars, renderVars>>

\* the process is interrupted (killed) between two steps: its local
\* variables are gone, the files stay as they are
Interrupt(p) ==
    /\ Running(p)
    /\ pc' = [pc EXCEPT ![p] = "killed"]
    /\ local' = [local EXCEPT ![p] = NoLocal]
    /\ UNCHANGED <<stateFile, journal, calls, overlap, unrewritten, before, extractVars, renderVars>>

(***************************************************************************)
(* The arguments and the run directories the specifications draw from.     *)
(***************************************************************************)
Args(data, set_status, timestamp) ==
    [event |-> <<"x">>, type |-> <<"e", "v", "e", "n", "t">>, data |-> data,
     set_status |-> set_status, timestamp |-> timestamp]

DataEmptyObject == <<"{", "}">>
DataHello == <<"h", "e", "l", "l", "o">>
DataArray == <<"[", "1", ",", " ", "{", "\"", "a", "\"", ":", "n", "u", "l", "l", "}", "]">>
DataTruncated == <<"{", "\"", "a", "\"", ":", "1">>
DataScalar == <<" ", "-", "7">>

StatusDone == <<"d", "o", "n", "e">>
StatusRun == <<"r", "u", "n">>

SeqArgs ==
    { Args(DataEmptyObject, <<>>, <<>>),
      Args(DataHello, StatusDone, <<>>),
      Args(DataArray, StatusRun, <<" ", "T", "0", " ">>),
      Args(DataTruncated, <<>>, <<" ">>),
      Args(DataScalar, <<>>, <<>>) }

FewArgs ==
    { Args(DataEmptyObject, <<>>, <<>>),
      Args(DataHello, StatusDone, <<>>) }

\* under interleaving each process has arguments of its own, so that an
\* entry of the journal tells which process appended it
ProcArgs(p) ==
    IF p = 1 THEN {Args(DataEmptyObject, <<>>, <<>>)}
    ELSE {Args(DataHello, StatusDone, <<>>)}

InitProcs ==
    /\ pc = [p \in Proc |-> "idle"]
    /\ local = [p \in Proc |-> NoLocal]
    /\ calls = <<>>
    /\ overlap = FALSE
    /\ unrewritten = FALSE
    /\ before = [journal |-> journal, stateFile |-> stateFile]

NoValue == [ok |-> FALSE, val |-> JNull]

InitExtractIdle ==
    /\ text = <<>>
    /\ result = [pc |-> "off"]
    /\ outFile = MissingFile
    /\ previous = NoValue

InitRenderIdle == render = [pc |-> "off"]

\* a fresh run: {"nextEventId": 1} and an empty journal
InitRun ==
    /\ stateFile = JsonFile(JObj(NextEventIdKey :> JInt(1)))
    /\ journal = <<>>
    /\ InitProcs
    /\ InitExtractIdle
    /\ InitRenderIdle

Idle == \A p \in Proc : ~Running(p)

\* invocations run one after another and each runs to completion
NextSeq ==
    \E p \in Proc :
        \/ \E a \in SeqArgs, now \in Clock : Idle /\ ReadState(p, a, now)
        \/ AppendLine(p)
        \/ RewriteState(p)

SpecSeq == InitRun /\ [][NextSeq]_vars

\* invocations run one after another and each may be interrupted
NextCrash ==
    \E p \in Proc :
        \/ \E a \in FewArgs, now \in Clock : Idle /\ ReadState(p, a, now)
        \/ AppendLine(p)
        \/ RewriteState(p)
        \/ Interrupt(p)

SpecCrash == InitRun /\ [][NextCrash]_vars

\* the invocations of several processes interleave step by step
Next ==
    \E p \in Proc :
        \/ \E a \in ProcArgs(p), now \in Clock : ReadState(p, a, now)
        \/ AppendLine(p)
        \/ RewriteState(p)
        \/ Interrupt(p)

Spec == InitRun /\ [][Next]_vars

(***************************************************************************)
(* Run directories in any condition: what state.json may hold when an      *)
(* invocation starts, with a journal that is empty or already has a line.  *)
(***************************************************************************)
NoteKey == <<"n", "o", "t", "e">>

StateObjects ==
    { EmptyDict,
      StatusKey :> JStr(StatusRun),
      NextEventIdKey :> JInt(1),
      NextEventIdKey :> JInt(9) @@ StatusKey :> JStr(StatusRun) @@ NoteKey :> JArr(<<JInt(0)>>),
      NextEventIdKey :> JInt(-1),
      NextEventIdKey :> JStr(<<"7">>),
      NextEventIdKey :> JStr(<<" ", "+", "4", "_", "2", " ">>),
      NextEventIdKey :> JStr(<<"a", "b", "c">>),
      NextEventIdKey :> JStr(<<>>),
      NextEventIdKey :> JFloat(<<"1", ".", "5">>),
      NextEventIdKey :> JNull,
      NextEventIdKey :> JBool(TRUE) }

StateFiles ==
    {MissingFile, NotJsonFile}
    \cup {JsonFile(v) : v \in {JArr(<<>>), JInt(5), JNull, JStr(<<"7">>)}}
    \cup {JsonFile(JObj(m)) : m \in StateObjects}

OldEntry == Entry(<<"T", "0">>, <<"e", "v", "e", "n", "t">>, <<"8">>, <<"x">>, JObj(EmptyDict))

InitAnyState ==
    /\ stateFile \in StateFiles
    /\ journal \in {<<>>, <<OldEntry>>}
    /\ InitProcs
    /\ InitExtractIdle
    /\ InitRenderIdle

NextAnyState ==
    \E p \in Proc :
        \/ \E a \in FewArgs, now \in Clock : Idle /\ ReadState(p, a, now)
        \/ AppendLine(p)
        \/ RewriteState(p)

SpecAnyState == InitAnyState /\ [][NextAnyState]_vars

(***************************************************************************)
(* What the properties below read off the run directory.                   *)
(***************************************************************************)
\* state.json holds an object whose nextEventId is an integer
HasIntNextEventId(f) ==
    /\ f.k = "json"
    /\ f.v.t = "obj"
    /\ NextEventIdKey \in DOMAIN f.v.m
    /\ f.v.m[NextEventIdKey].t = "int"

\* the nextEventId of such a state.json
NextEventIdIn(f) == f.v.m[NextEventIdKey].n

\* state.json holds an object with no nextEventId
LacksNextEventId(f) ==
    f.k = "json" /\ f.v.t = "obj" /\ NextEventIdKey \notin DOMAIN f.v.m

\* the id of the last line of the journal, as a number
LastId == PyInt(journal[Len(journal)].id).val

\* the texts of the first positive integers, written out
IdText == << <<"1">>, <<"2">>, <<"3">>, <<"4">>, <<"5">>, <<"6">>, <<"7">>, <<"8">>,
             <<"9">>, <<"1", "0">>, <<"1", "1">>, <<"1", "2">> >>

NoneFailed == \A p \in Proc : pc[p] # "failed"

\* p made the latest invocation
Latest(p) == calls # <<>> /\ calls[Len(calls)].proc = p

(***************************************************************************)
(* C1.  From {"nextEventId": 1} and an empty journal, after n invocations  *)
(* that run one after another and each to completion, the journal holds    *)
(* exactly n entries, their ids in file order are "1", "2", ..., "n", and  *)
(* the state's nextEventId is n + 1.  (SpecSeq)                            *)
(***************************************************************************)
C1_SequentialIds ==
    /\ \A i \in 1..Len(journal) : journal[i].id = IdText[i]
    /\ Idle =>
         /\ NoneFailed
         /\ Len(journal) = Len(calls)
         /\ HasIntNextEventId(stateFile)
         /\ NextEventIdIn(stateFile) = Len(calls) + 1

C1_Witness ==
    /\ Idle
    /\ Len(calls) = 3
    /\ journal[3].id = <<"3">>
    /\ NextEventIdIn(stateFile) = 4
    /\ pc[1] = "done" /\ pc[2] = "done"

(***************************************************************************)
(* C2.  As claimed: in every reachable state with a non-empty journal,     *)
(* the states between the steps of an invocation included, nextEventId is  *)
(* exactly one greater than the id of the last journal entry.              *)
(* (SpecCrash: invocations do not overlap, each may be interrupted)        *)
(***************************************************************************)
C2_Original ==
    journal # <<>> => NextEventIdIn(stateFile) = LastId + 1

(***************************************************************************)
(* C2, amended.  When invocations do not overlap, nextEventId is exactly   *)
(* one greater than the id of the last journal entry once the invocation   *)
(* that appended it has rewritten the state; from that append until the    *)
(* next rewrite of the state (for good, if the invocation is interrupted   *)
(* there and none follows) nextEventId equals that id.  The rewrite of     *)
(* the state file counts as one step.                                      *)
(***************************************************************************)
C2_Amended ==
    journal # <<>> =>
        /\ HasIntNextEventId(stateFile)
        /\ NextEventIdIn(stateFile) = IF unrewritten THEN LastId ELSE LastId + 1

C2_Witness ==
    /\ Idle
    /\ Len(journal) = 3
    /\ unrewritten
    /\ \E p \in Proc : pc[p] = "killed"
    /\ NextEventIdIn(stateFile) = 2
    /\ LastId = 2

(***************************************************************************)
(* C3.  As claimed: under every interleaving of the steps of several       *)
(* processes, each rewrite of the state stores a nextEventId greater than  *)
(* or equal to the one stored before it.  (Spec)                           *)
(***************************************************************************)
C3_Original ==
    [][NextEventIdIn(stateFile') >= NextEventIdIn(stateFile)]_vars

(***************************************************************************)
(* C3, amended.  Each rewrite of the state stores one more than the        *)
(* nextEventId its own invocation read; as long as no invocation has       *)
(* started while another was running, that is more than the value stored   *)
(* before it, so the persisted nextEventId never decreases (interrupted    *)
(* invocations included).  An invocation that overlaps others may store    *)
(* less than what is stored.                                               *)
(***************************************************************************)
C3_Amended ==
    [][/\ \A p \in Proc :
            (pc[p] = "appended" /\ pc'[p] = "done") =>
                /\ NextEventIdIn(stateFile') = PyInt(local[p].event_id).val + 1
                /\ ~overlap => NextEventIdIn(stateFile') > NextEventIdIn(stateFile)
       /\ ~overlap' => NextEventIdIn(stateFile') >= NextEventIdIn(stateFile)]_vars

C3_Witness ==
    /\ ~overlap
    /\ pc[1] = "done" /\ pc[2] = "killed"
    /\ Len(calls) = 4
    /\ NextEventIdIn(stateFile) = 3

(***************************************************************************)
(* C4.  The journal is append-only under every schedule: a step that       *)
(* changes the journal is the append step of one invocation and adds that  *)
(* invocation's entry at the end; every entry already present keeps its    *)
(* content and its position, and the length never decreases.  (Spec)       *)
(***************************************************************************)
C4_AppendOnly ==
    [][/\ Len(journal') >= Len(journal)
       /\ \A i \in 1..Len(journal) : journal'[i] = journal[i]
       /\ \A p \in Proc :
            (pc[p] = "read" /\ pc'[p] = "appended") =>
                /\ Len(journal') = Len(journal) + 1
                /\ journal'[Len(journal')] = local[p].entry
       /\ journal' # journal =>
            \E p \in Proc : pc[p] = "read" /\ pc'[p] = "appended"]_vars

C4_Witness ==
    /\ Len(journal) = 3
    /\ overlap
    /\ journal[1].id = journal[2].id
    /\ pc[1] = "killed" /\ pc[2] = "appended"

(***************************************************************************)
(* C5.  As claimed: an invocation that ends in failure leaves the journal  *)
(* and the state record as they were before it, whatever state.json held.  *)
(* (SpecAnyState: invocations one after another, from any run directory)   *)
(***************************************************************************)
C5_AllOrNothing ==
    \A p \in Proc :
        (Latest(p) /\ pc[p] = "failed") =>
            /\ journal = before.journal
            /\ stateFile = before.stateFile

EntriesWithId(id) == {i \in 1..Len(journal) : journal[i].id = id}

C7_LostUpdate ==
    \A p, q \in Proc :
        (p # q /\ pc[p] = "done" /\ pc[q] = "done"
         /\ local[p].event_id = local[q].event_id) =>
            /\ overlap
            /\ Cardinality(EntriesWithId(local[p].event_id)) >= 2
            /\ NextEventIdIn(stateFile) = PyInt(local[p].event_id).val + 1

C7_Witness ==
    /\ pc[1] = "done" /\ pc[2] = "done"
    /\ Len(calls) = 2
    /\ Len(journal) = 2
    /\ journal[1].id = <<"1">> /\ journal[2].id = <<"1">>
    /\ NextEventIdIn(stateFile) = 2
    /\ NextEventIdIn(stateFile) # Len(journal) + 1

(***************************************************************************)
(* C8.  A successful invocation with a non-empty setStatus s leaves the    *)
(* state's status equal to s; one without leaves status as it was (absent  *)
(* stays absent); both add exactly one to nextEventId.  After any          *)
(* sequence of invocations run one after another the status is the         *)
(* setStatus of the latest that supplied one.  (SpecSeq)                   *)
(***************************************************************************)
\* the non-empty set_status of the latest of the first n calls that gave one
RECURSIVE LatestStatus(_)
LatestStatus(n) ==
    IF n = 0 THEN <<>>
    ELSE IF calls[n].args.set_status # <<>> THEN calls[n].args.set_status
    ELSE LatestStatus(n - 1)

StatusIn(f) == IF StatusKey \in DOMAIN f.v.m THEN <<f.v.m[StatusKey]>> ELSE <<>>

C8_StatusTransition ==
    /\ [](Idle =>
            IF LatestStatus(Len(calls)) = <<>> THEN StatusIn(stateFile) = <<>>
            ELSE StatusIn(stateFile) = <<JStr(LatestStatus(Len(calls)))>>)
    /\ [][\A p \in Proc :
            (pc[p] = "appended" /\ pc'[p] = "done") =>
                /\ NextEventIdIn(stateFile') = NextEventIdIn(stateFile) + 1
                /\ IF local[p].args.set_status # <<>>
                   THEN StatusIn(stateFile') = <<JStr(local[p].args.set_status)>>
                   ELSE StatusIn(stateFile') = StatusIn(stateFile)]_vars

C8_Witness ==
    /\ Idle
    /\ Len(calls) = 4
    /\ calls[1].args.set_status = <<>>
    /\ calls[2].args.set_status = StatusRun
    /\ calls[3].args.set_status = StatusDone
    /\ calls[4].args.set_status = <<>>
    /\ StatusIn(stateFile) = <<JStr(StatusDone)>>
    /\ NextEventIdIn(stateFile) = 5

(***************************************************************************)
(* C9.  A data argument that is not valid JSON does not fail the           *)
(* invocation: the entry's data is the object {"raw": <the argument>} and  *)
(* nextEventId advances as for valid data; for valid JSON the entry's      *)
(* data is the parsed value.  (SpecSeq)                                    *)
(***************************************************************************)
\* what Python's json.loads gives for each data argument of SeqArgs, written out
ExpectedData(data) ==
    CASE data = DataEmptyObject -> [valid |-> TRUE, val |-> JObj(EmptyDict)]
      [] data = DataHello -> [valid |-> FALSE, val |-> JNull]
      [] data = DataArray ->
            [valid |-> TRUE, val |-> JArr(<<JInt(1), JObj(<<"a">> :> JNull)>>)]
      [] data = DataTruncated -> [valid |-> FALSE, val |-> JNull]
      [] data = DataScalar -> [valid |-> TRUE, val |-> JInt(-7)]

C9_LenientData ==
    /\ NoneFailed
    /\ Len(journal) <= Len(calls)
    /\ \A i \in 1..Len(journal) :
          LET data == calls[i].args.data IN
          journal[i].data = IF ExpectedData(data).valid THEN ExpectedData(data).val
                            ELSE JObj(RawKey :> JStr(data))
    /\ Idle => /\ Len(journal) = Len(calls)
               /\ NextEventIdIn(stateFile) = Len(calls) + 1

C9_Witness ==
    /\ Idle
    /\ Len(journal) = 3
    /\ calls[1].args.data = DataHello
    /\ journal[1].data = JObj(RawKey :> JStr(DataHello))
    /\ calls[2].args.data = DataTruncated
    /\ journal[2].data = JObj(RawKey :> JStr(DataTruncated))
    /\ journal[3].data = JInt(-7)
    /\ NextEventIdIn(stateFile) = 4

(***************************************************************************)
(* extract_first_json.py, lines 7-18.  The result keeps, with the value    *)
(* returned, the start and end of the chunk that parsed (the loop          *)
(* variables at the return, as 1-based inclusive positions).               *)
(***************************************************************************)
NotFound == [ok |-> FALSE, val |-> JNull, start |-> 0, end |-> 0]

\* mutant of IsOpening: a quote or a digit starts a candidate too
IsValueStart(c) == c \in {"{", "[", "\""} \/ IsDigit(c)

\* mutant of IsOpening: only a brace starts a candidate
IsOpeningBrace(c) == c = "{"

IsOpening(c) == c \in {"{", "["}

\* mutant of TryEnds: only the whole rest of the text is tried
TryWholeRest(txt, start, end) ==
    IF end >= start /\ JsonLoads(SubSeq(txt, start, end)).ok
    THEN [ok |-> TRUE, val |-> JsonLoads(SubSeq(txt, start, end)).val,
          start |-> start, end |-> end]
    ELSE NotFound

\* lines 11-16: for end in range(len(text), start, -1): the first chunk
\* text[start:end] that json.loads accepts is returned
RECURSIVE TryEnds(_, _, _)
TryEnds(txt, start, end) ==
    IF end < start THEN NotFound
    ELSE IF JsonLoads(SubSeq(txt, start, end)).ok
    THEN [ok |-> TRUE, val |-> JsonLoads(SubSeq(txt, start, end)).val,
          start |-> start, end |-> end]
    ELSE TryEnds(txt, start, end - 1)

\* mutant of TryStarts: the search gives up at the first match that fails
RECURSIVE TryStartsOnce(_, _)
TryStartsOnce(txt, i) ==
    IF i > Len(txt) THEN NotFound
    ELSE IF IsOpening(txt[i]) THEN TryEnds(txt, i, Len(txt))
    ELSE TryStartsOnce(txt, i + 1)

\* lines 9-18, from position i on: the matches of (\{|\[) from left to
\* right; ok = FALSE is the ValueError of line 18
RECURSIVE TryStarts(_, _)
TryStarts(txt, i) ==
    IF i > Len(txt) THEN NotFound
    ELSE IF IsOpening(txt[i]) /\ TryEnds(txt, i, Len(txt)).ok
    THEN TryEnds(txt, i, Len(txt))
    ELSE TryStarts(txt, i + 1)

\* mutant of ExtractFirstJson: the matches are tried from right to left
RECURSIVE TryStartsBackwards(_, _)
TryStartsBackwards(txt, i) ==
    IF i < 1 THEN NotFound
    ELSE IF IsOpening(txt[i]) /\ TryEnds(txt, i, Len(txt)).ok
    THEN TryEnds(txt, i, Len(txt))
    ELSE TryStartsBackwards(txt, i - 1)

ExtractLastJson(txt) == TryStartsBackwards(txt, Len(txt))

ExtractFirstJson(txt) == TryStarts(txt, 1)

\* the call of extract_first_json(text), line 34
Extract ==
    /\ result.pc = "idle"
    /\ result' = [pc |-> "done", out |-> ExtractFirstJson(text)]
    /\ UNCHANGED <<text, outFile, previous, journalVars, renderVars>>

\* line 35: out_path.write_text(json.dumps(obj, ensure_ascii=False, indent=2)
\* + "\n"); a run whose extraction raised never gets here
WriteOut ==
    /\ result.pc = "done"
    /\ result.out.ok
    /\ outFile' = TextFile(JsonDumps(result.out.val) \o <<"\n">>)
    /\ result' = [pc |-> "written", out |-> result.out]
    /\ UNCHANGED <<text, previous, journalVars, renderVars>>

\* lines 27-33 of a next run whose in_path is the file the last run wrote:
\* the file has no byte order mark and is decoded as UTF-8
ReadOutput ==
    /\ result.pc = "written"
    /\ outFile.k = "text"
    /\ text' = outFile.s
    /\ result' = [pc |-> "idle"]
    /\ previous' = [ok |-> TRUE, val |-> result.out.val]
    /\ UNCHANGED <<outFile, journalVars, renderVars>>

(***************************************************************************)
(* The input texts: every sequence of at most MaxTokens tokens, and the    *)
(* examples of the specification.                                          *)
(***************************************************************************)
Tokens ==
    { <<"{">>, <<"}">>, <<"[">>, <<"]">>, <<"1">>, <<",">>, <<" ">>,
      <<"\"">>, <<"\"", "a", "\"", ":">> }

RECURSIVE Flatten(_)
Flatten(ts) == IF ts = <<>> THEN <<>> ELSE Head(ts) \o Flatten(Tail(ts))

\* the texts of at most max tokens
TokenTexts(max) == {Flatten(ts) : ts \in UNION {[1..n -> Tokens] : n \in 0..max}}

\* prefix {"a":1} suffix {"b":2}
ExampleTwoObjects ==
    <<"p", "r", "e", "f", "i", "x", " ", "{", "\"", "a", "\"", ":", "1", "}", " ",
      "s", "u", "f", "f", "i", "x", " ", "{", "\"", "b", "\"", ":", "2", "}">>

\* noise { not json } {"ok":true}
ExampleNoise ==
    <<"n", "o", "i", "s", "e", " ", "{", " ", "n", "o", "t", " ", "j", "s", "o", "n",
      " ", "}", " ", "{", "\"", "o", "k", "\"", ":", "t", "r", "u", "e", "}">>

\* [] then {"a": [1, 2]}
ExampleShortThenLong ==
    <<"[", "]", " ", "t", "h", "e", "n", " ", "{", "\"", "a", "\"", ":", " ", "[", "1",
      ",", " ", "2", "]", "}">>

\* say ["a\"]", "\\"] end
ExampleEscapes ==
    <<"s", "a", "y", " ", "[", "\"", "a", "\\", "\"", "]", "\"", ",", " ", "\"", "\\", "\\",
      "\"", "]", " ", "e", "n", "d">>

\* no brackets here
ExampleNoBrackets ==
    <<"n", "o", " ", "b", "r", "a", "c", "k", "e", "t", "s", " ", "h", "e", "r", "e">>

ExampleTexts ==
    {ExampleTwoObjects, ExampleNoise, ExampleShortThenLong, ExampleNoBrackets, ExampleEscapes}

InitExtract ==
    /\ text \in TokenTexts(MaxTokens) \cup ExampleTexts
    /\ result = [pc |-> "idle"]
    /\ outFile = MissingFile
    /\ previous = NoValue
    /\ stateFile = MissingFile
    /\ journal = <<>>
    /\ InitProcs
    /\ InitRenderIdle

NextExtract == Extract \/ WriteOut \/ ReadOutput

SpecExtract == InitExtract /\ [][NextExtract]_vars

(***************************************************************************)
(* C10.  Earliest start wins: when some opening bracket of the text        *)
(* starts a chunk that parses, extract returns the parse of text[s:e], s   *)
(* the smallest such bracket position and e the largest end for which      *)
(* text[s:e] parses; later start positions are not considered, so          *)
(* 'prefix {"a":1} suffix {"b":2}' yields {"a":1}.  (SpecExtract)          *)
(***************************************************************************)
Parses(s, e) == JsonLoads(SubSeq(text, s, e)).ok

ParsingEnds(s) == {e \in s..Len(text) : Parses(s, e)}

ViableStarts == {s \in 1..Len(text) : IsOpening(text[s]) /\ ParsingEnds(s) # {}}

Least(S) == CHOOSE x \in S : \A y \in S : x <= y

Greatest(S) == CHOOSE x \in S : \A y \in S : y <= x

C10_EarliestStartWins ==
    (result.pc = "done" /\ ViableStarts # {}) =>
        LET s == Least(ViableStarts)
            e == Greatest(ParsingEnds(s))
        IN /\ result.out.ok
           /\ result.out.start = s
           /\ result.out.end = e
           /\ result.out.val = JsonLoads(SubSeq(text, s, e)).val
           /\ text = ExampleTwoObjects => result.out.val = JObj(<<"a">> :> JInt(1))

\* a later start position begins a longer value, and the earlier one is returned
C10_Witness ==
    /\ result.pc = "done"
    /\ result.out.ok
    /\ \E s2 \in ViableStarts :
          /\ s2 > result.out.start
          /\ Greatest(ParsingEnds(s2)) - s2 > result.out.end - result.out.start
          /\ JsonLoads(SubSeq(text, s2, Greatest(ParsingEnds(s2)))).val # result.out.val
    /\ result.out.val = JArr(<<>>)

(***************************************************************************)
(* C11.  extract fails with "no JSON found" if and only if no position of  *)
(* a "{" or "[" starts a chunk that parses: a start at which every         *)
(* truncation fails is skipped and the next one is tried, so               *)
(* 'noise { not json } {"ok":true}' yields {"ok":true}; a text with no     *)
(* opening bracket always fails.  (SpecExtract)                            *)
(***************************************************************************)
OpeningPositions == {s \in 1..Len(text) : IsOpening(text[s])}

C11_FailsIffNoViableStart ==
    result.pc = "done" =>
        /\ ~result.out.ok <=> (\A s \in OpeningPositions : \A e \in s..Len(text) : ~Parses(s, e))
        /\ OpeningPositions = {} => ~result.out.ok
        /\ text = ExampleNoise =>
             /\ result.out.ok
             /\ result.out.val = JObj(<<"o", "k">> :> JBool(TRUE))
        /\ text = ExampleNoBrackets => ~result.out.ok

\* the first opening bracket fails every truncation and a later one is returned
C11_Witness ==
    /\ result.pc = "done"
    /\ result.out.ok
    /\ \E s \in OpeningPositions : s < result.out.start /\ ParsingEnds(s) = {}
    /\ result.out.val = JObj(<<"a">> :> JInt(1))

(***************************************************************************)
(* C12.  For a text that contains exactly one JSON value, with no bracket  *)
(* in the text around it, extraction returns that value exactly, whatever  *)
(* kind of JSON value it is.  As stated this fails for a scalar (a number, *)
(* a string, a literal): no candidate starts there.  It holds when the     *)
(* value is an object or an array.  (SpecExtract)                          *)
(***************************************************************************)
BracketChars == {"{", "}", "[", "]"}

BracketFree(a, b) == \A i \in a..b : text[i] \notin BracketChars

\* text[a..b] is the text of a JSON value
IsValueSpan(a, b) ==
    /\ a <= b
    /\ text[a] \notin JsonWs
    /\ text[b] \notin JsonWs
    /\ Parses(a, b)

\* text[a..b] is the one JSON value of the text: the text around it has no
\* bracket, and every other value lies inside it
OnlyValue(a, b) ==
    /\ a <= b
    /\ BracketFree(1, a - 1)
    /\ BracketFree(b + 1, Len(text))
    /\ IsValueSpan(a, b)
    /\ \A c \in 1..Len(text) : \A d \in c..Len(text) :
          (c < a \/ d > b) => ~IsValueSpan(c, d)

ReturnsSpan(a, b) ==
    /\ result.out.ok
    /\ result.out.val = JsonLoads(SubSeq(text, a, b)).val

C13_Idempotent ==
    (previous.ok /\ result.pc \in {"done", "written"}) =>
        /\ result.out.ok
        /\ result.out.val = previous.val

\* the written text of an array with a string that needs escapes was read back
C13_Witness ==
    /\ previous.ok
    /\ result.pc = "done"
    /\ result.out.ok
    /\ result.out.val = JArr(<<JStr(<<"a", "\"", "]">>), JStr(<<"\\">>)>>)
    /\ text # ExampleEscapes

(***************************************************************************)
(* a5c_render_prompt.py.  One invocation is two steps: LoadContext (lines  *)
(* 15-19: read the template, then parse the context from one of the two    *)
(* sources) and WriteRendered (lines 21-24).  render.parsed is history:    *)
(* the sources json.loads was applied to.                                  *)
(***************************************************************************)
\* the byte order mark, as the one character it decodes to
BOM == "\\ufeff"

\* decoding with utf-8-sig, line 17: a leading byte order mark is dropped
DecodeSig(s) == IF s # <<>> /\ Head(s) = BOM THEN Tail(s) ELSE s

\* str.replace(old, new): the occurrences of old, left to right, not overlapping
RECURSIVE Replace(_, _, _)
Replace(s, old, new) ==
    IF s = <<>> THEN <<>>
    ELSE IF MatchAt(s, 1, old)
    THEN new \o Replace(SubSeq(s, Len(old) + 1, Len(s)), old, new)
    ELSE <<Head(s)>> \o Replace(Tail(s), old, new)

TaskMark == <<"{", "{", "t", "a", "s", "k", "}", "}">>
ContextMark == <<"{", "{", "c", "o", "n", "t", "e", "x", "t", "}", "}">>

\* mutant of ContextSource: --context-json wins when it is given
ContextSourceJsonFirst(args) == IF args.context_json # <<>> THEN "json" ELSE "file"

\* lines 16-19: if args.context_file: ... else: ...
ContextSource(args) == IF args.context_file # <<>> THEN "file" ELSE "json"

\* lines 15-19
LoadContext ==
    /\ render.pc = "idle"
    /\ LET args == render.args
           source == ContextSource(args)
           fileRead == source = "file" /\ render.contextFile.k = "text"
           loaded == IF source = "file"
                     THEN IF fileRead THEN JsonLoads(DecodeSig(render.contextFile.s))
                          ELSE NoValue
                     ELSE JsonLoads(args.context_json)
           parsed == IF render.templateFile.k # "text" THEN {}
                     ELSE IF source = "json" THEN {"json"}
                     ELSE IF fileRead THEN {"file"}
                     ELSE {}
       IN render' = [render EXCEPT
                        !.pc = IF render.templateFile.k = "text" /\ loaded.ok
                               THEN "loaded" ELSE "failed",
                        !.parsed = parsed,
                        !.context = IF render.templateFile.k = "text" /\ loaded.ok
                                    THEN loaded.val ELSE JNull]
    /\ UNCHANGED <<journalVars, extractVars>>

\* lines 21-24
WriteRendered ==
    /\ render.pc = "loaded"
    /\ render' = [render EXCEPT
                     !.pc = "done",
                     !.out = TextFile(Replace(Replace(render.templateFile.s, TaskMark,
                                                      render.args.task),
                                              ContextMark, JsonDumps(render.context)))]
    /\ UNCHANGED <<journalVars, extractVars>>

\* T:{{task}} C:{{context}}
TemplateBoth ==
    <<"T", ":">> \o TaskMark \o <<" ", "C", ":">> \o ContextMark

TemplateFiles == {MissingFile, TextFile(TemplateBoth), TextFile(ContextMark)}

Tasks == {<<"g", "o">>, ContextMark}

\* --context-json: not given (the default ""), {"a":1}, [1], and text that
\* is not JSON
ContextJsons ==
    {<<>>, <<"{", "\"", "a", "\"", ":", "1", "}">>, <<"[", "1", "]">>, <<"{">>}

\* --context-file: not given (the default ""), or a path
ContextPaths == {<<>>, <<"c", ".", "j", "s", "o", "n">>}

\* the file at the path: missing, [2], {} after a byte order mark, not JSON
ContextFiles ==
    {MissingFile, TextFile(<<"[", "2", "]">>), TextFile(<<BOM, "{", "}">>),
     TextFile(<<"]">>)}

InitRender ==
    /\ render \in
         {[pc |-> "idle",
           args |-> [task |-> t, context_json |-> j, context_file |-> f],
           templateFile |-> tf, contextFile |-> cf,
           parsed |-> {}, context |-> JNull, out |-> MissingFile] :
            t \in Tasks, j \in ContextJsons, f \in ContextPaths,
            tf \in TemplateFiles, cf \in ContextFiles}
    /\ stateFile = MissingFile
    /\ journal = <<>>
    /\ InitProcs
    /\ InitExtractIdle

NextRender == LoadContext \/ WriteRendered

SpecRender == InitRender /\ [][NextRender]_vars

(***************************************************************************)
(* C14.  When both --context-file and --context-json are given, the        *)
(* context that replaces {{context}} is the one parsed from the file, and  *)
(* the --context-json value is never parsed or used; --context-json is     *)
(* used only when --context-file is not given.  (SpecRender; an empty      *)
(* --context-file is what argparse gives for an absent one)                *)
(***************************************************************************)
FileContexts == {JArr(<<JInt(2)>>), JObj(EmptyDict)}

JsonContexts == {JObj(<<"a">> :> JInt(1)), JArr(<<JInt(1)>>)}

FileIsJson == render.contextFile \in {TextFile(<<"[", "2", "]">>), TextFile(<<BOM, "{", "}">>)}

C14_FileWins ==
    render.pc \in {"loaded", "failed", "done"} =>
        IF render.args.context_file # <<>>
        THEN /\ "json" \notin render.parsed
             /\ render.pc # "failed" => render.context \in FileContexts
             /\ render.pc = "failed" <=> (~FileIsJson \/ render.templateFile = MissingFile)
        ELSE /\ "file" \notin render.parsed
             /\ render.pc # "failed" => render.context \in JsonContexts

\* both were given, the --context-json text is not JSON, and the rendered
\* text carries the value of the file
C14_Witness ==
    /\ render.pc = "done"
    /\ render.args.context_file # <<>>
    /\ render.args.context_json = <<"{">>
    /\ render.parsed = {"file"}
    /\ render.templateFile = TextFile(ContextMark)
    /\ render.out = TextFile(<<"[", "\n", " ", " ", "2", "\n", "]">>)

(***************************************************************************)
(* C15.  Append before advance: from an empty journal and nextEventId 1,   *)
(* in every reachable state, under any interleaving and interruption, a    *)
(* persisted nextEventId v > 1 means the journal already holds an entry    *)
(* with id v - 1: the counter never runs ahead of the journal.  (Spec)     *)
(***************************************************************************)
C15_AppendBeforeAdvance ==
    /\ HasIntNextEventId(stateFile)
    /\ NextEventIdIn(stateFile) > 1 =>
         \E i \in 1..Len(journal) :
             journal[i].id = IntStr(NextEventIdIn(stateFile) - 1)

\* invocations overlapped, one was interrupted, and the counter has advanced
\* twice
C15_Witness ==
    /\ overlap
    /\ \E p \in Proc : pc[p] = "killed"
    /\ NextEventIdIn(stateFile) = 3
    /\ \E i \in 1..Len(journal) : journal[i].id = <<"2">>
    /\ journal[Len(journal)].id # <<"2">>

(***************************************************************************)
(* C16.  Crash tolerance without concurrency: invocations never overlap    *)
(* but each may be interrupted after any step.  The journal line of an     *)
(* interrupted invocation stays; whenever the journal is not empty the     *)
(* state's nextEventId is the id of the last entry or that id plus one;    *)
(* the ids of the journal never decrease in file order, and an append      *)
(* repeats the id before it exactly when it follows an invocation that     *)
(* was interrupted between its append and its rewrite.  (SpecCrash)        *)
(***************************************************************************)
IdAt(i) == PyInt(journal[i].id).val

C16_CrashTolerance ==
    /\ [](/\ journal # <<>> =>
               /\ HasIntNextEventId(stateFile)
               /\ NextEventIdIn(stateFile) \in {LastId, LastId + 1}
          /\ \A i \in 1..(Len(journal) - 1) : IdAt(i) <= IdAt(i + 1))
    /\ [][/\ \A i \in 1..Len(journal) :
                Len(journal') >= i /\ journal'[i] = journal[i]
          /\ \A p \in Proc :
                /\ (Running(p) /\ pc'[p] = "killed") => journal' = journal
                /\ (pc[p] = "read" /\ pc'[p] = "appended" /\ journal # <<>>) =>
                      /\ unrewritten <=>
                            journal'[Len(journal')].id = journal[Len(journal)].id
                      /\ ~unrewritten =>
                            PyInt(journal'[Len(journal')].id).val = LastId + 1]_vars

\* the second invocation was interrupted after its append: ids 1, 2, 2, 3
C16_Witness ==
    /\ Len(journal) = 4
    /\ journal[1].id = <<"1">>
    /\ journal[2].id = <<"2">>
    /\ journal[3].id = <<"2">>
    /\ journal[4].id = <<"3">>
    /\ \E p \in Proc : pc[p] = "killed"
    /\ NextEventIdIn(stateFile) = 3

(***************************************************************************)
(* C17.  A successful invocation changes only nextEventId (and status,     *)
(* when its setStatus is not empty): every other field the state record    *)
(* had before the invocation is there afterwards with the same value, and  *)
(* no other field is added.  (SpecAnyState)                                *)
(***************************************************************************)
Touched(set_status) ==
    {NextEventIdKey} \cup (IF set_status # <<>> THEN {StatusKey} ELSE {})

C17_Frame ==
    [][\A p \in Proc :
          (pc[p] = "appended" /\ pc'[p] = "done") =>
              LET old == before.stateFile.v.m
                  new == stateFile'.v.m
                  touched == Touched(local[p].args.set_status)
              IN /\ stateFile'.k = "json"
                 /\ DOMAIN new = DOMAIN old \cup touched
                 /\ \A k \in DOMAIN old \ touched : new[k] = old[k]
                 /\ new[NextEventIdKey] # DictGet(old, NextEventIdKey, JNull)]_vars

\* the note and the status of the record were kept while the counter went
\* from 9 to 10
C17_Witness ==
    /\ \E p \in Proc : pc[p] = "done" /\ Latest(p)
    /\ calls[Len(calls)].args.set_status = <<>>
    /\ HasIntNextEventId(before.stateFile)
    /\ HasIntNextEventId(stateFile)
    /\ {NoteKey, StatusKey} \subseteq DOMAIN stateFile.v.m
    /\ before.stateFile.v.m[NextEventIdKey] = JInt(9)
    /\ stateFile.v.m[NextEventIdKey] = JInt(10)
    /\ stateFile.v.m[NoteKey] = JArr(<<JInt(0)>>)
    /\ stateFile.v.m[StatusKey] = JStr(StatusRun)

(***************************************************************************)
(* C18.  Whenever extract succeeds the value is a container, an object or  *)
(* an array, never a bare scalar; a text whose only JSON values are        *)
(* scalars outside any bracket makes extract fail.  (SpecExtract)          *)
(***************************************************************************)
IsContainer(v) == v.t \in {"obj", "arr"}

C18_ContainersOnly ==
    result.pc = "done" =>
        /\ result.out.ok =>
             /\ IsContainer(result.out.val)
             /\ \E a \in OpeningPositions : ParsingEnds(a) # {}
        /\ (/\ BracketFree(1, Len(text))
            /\ \E a \in 1..Len(text) : \E b \in a..Len(text) : IsValueSpan(a, b)) =>
               ~result.out.ok

\* the text starts with a scalar; it is passed over and the array is returned
C18_Witness ==
    /\ result.pc = "done"
    /\ result.out.ok
    /\ result.out.val = JArr(<<JStr(<<>>)>>)
    /\ result.out.start > 1
    /\ \E b \in 1..(result.out.start - 1) :
          IsValueSpan(1, b) /\ ~IsContainer(JsonLoads(SubSeq(text, 1, b)).val)

(***************************************************************************)
(* C19.  The search over all truncations gives what a balanced scanner     *)
(* gives: trying each "{" or "[" from left to right, taking the span that  *)
(* ends where the nesting depth, tracked with string and escape state,     *)
(* first returns to zero, parsing that span and moving to the next start   *)
(* when it does not parse, yields the same value as extract and fails      *)
(* exactly when extract fails.  (SpecExtract)                              *)
(***************************************************************************)
\* the index where the depth returns to zero, 0 when it never does
RECURSIVE BalancedEnd(_, _, _, _, _)
BalancedEnd(txt, i, depth, inString, escaped) ==
    IF i > Len(txt) THEN 0
    ELSE IF inString
    THEN IF escaped THEN BalancedEnd(txt, i + 1, depth, TRUE, FALSE)
         ELSE IF txt[i] = "\\" THEN BalancedEnd(txt, i + 1, depth, TRUE, TRUE)
         ELSE IF txt[i] = "\"" THEN BalancedEnd(txt, i + 1, depth, FALSE, FALSE)
         ELSE BalancedEnd(txt, i + 1, depth, TRUE, FALSE)
    ELSE IF txt[i] = "\"" THEN BalancedEnd(txt, i + 1, depth, TRUE, FALSE)
    ELSE IF txt[i] \in {"{", "["} THEN BalancedEnd(txt, i + 1, depth + 1, FALSE, FALSE)
    ELSE IF txt[i] \in {"}", "]"}
    THEN IF depth = 1 THEN i ELSE BalancedEnd(txt, i + 1, depth - 1, FALSE, FALSE)
    ELSE BalancedEnd(txt, i + 1, depth, FALSE, FALSE)

\* the balanced scanner, from position i on
RECURSIVE ScanBalanced(_, _)
ScanBalanced(txt, i) ==
    IF i > Len(txt) THEN NoValue
    ELSE IF txt[i] \in {"{", "["}
    THEN LET e == BalancedEnd(txt, i, 0, FALSE, FALSE) IN
         IF e > 0 /\ JsonLoads(SubSeq(txt, i, e)).ok
         THEN [ok |-> TRUE, val |-> JsonLoads(SubSeq(txt, i, e)).val]
         ELSE ScanBalanced(txt, i + 1)
    ELSE ScanBalanced(txt, i + 1)

C19_BalancedScanner ==
    result.pc = "done" =>
        LET scanned == ScanBalanced(text, 1) IN
        /\ result.out.ok <=> scanned.ok
        /\ result.out.ok => result.out.val = scanned.val

\* the value returned has a closing bracket inside a string, where the depth
\* must not count it
C19_Witness ==
    /\ result.pc = "done"
    /\ previous = NoValue
    /\ result.out.ok
    /\ ScanBalanced(text, 1).ok
    /\ BalancedEnd(text, result.out.start, 0, FALSE, FALSE) = result.out.end
    /\ result.out.val = JArr(<<JStr(<<"]">>)>>)

=============================================================================
